---- MODULE Spec2Model ----
(***************************************************************************)
(* State-machine model of backend/server.py: the request handlers of the   *)
(* work-order backend over the document store.  The collections of the     *)
(* store are the variables.  Handlers are coroutines on one event loop: a  *)
(* request runs alone from one await to the next and other requests run    *)
(* while it waits, so every await of a handler is one action: the database *)
(* operation awaited, then the handler's code up to its next await.        *)
(*                                                                         *)
(* Modelling conventions                                                   *)
(*  - a collection is the sequence of its documents in insertion (natural) *)
(*    order; find_one returns the first match, find the matches in order;  *)
(*  - uuid4 ids are fresh naturals: users, cost entries and notifications  *)
(*    are never deleted, so their id is their insertion rank; work orders  *)
(*    are deleted, so their id comes from the counter wo_seq, taken when   *)
(*    the WorkOrder object is built;                                       *)
(*  - Python None is NoneId (ids, numbers) or NoneStr (strings); the empty *)
(*    string as an id is EmptyId (falsy, like None, but it is stored);     *)
(*  - timestamps are minutes on the clock now; created_at of a work order  *)
(*    is the rank in which the WorkOrder objects are built;                *)
(*  - fields no handler branches on (title, description, location, ...)    *)
(*    are left out of the documents.                                       *)
(***************************************************************************)
EXTENDS Integers, Sequences, FiniteSets, TLC

VARIABLES users, sessions, work_orders, cost_entries, notifications,
          company_settings, issued, cookies, now, wo_seq, inflight, resp

vars == <<users, sessions, work_orders, cost_entries, notifications,
          company_settings, issued, cookies, now, wo_seq, inflight, resp>>

\* ------------------------------------------------------------------ values

\* Optional[...] = None for an id or a number
NoneId == -1
\* Optional[str] = None
NoneStr == "None"
\* the empty string given as an id: falsy in Python, but not None
EmptyId == 0
\* an id that matches no stored user, work order or notification
GhostId == 99

ADMIN == "admin"
SUPERVISOR == "supervisor"
TECHNICIAN == "technician"
CLIENT == "client"
UserRole == {ADMIN, SUPERVISOR, TECHNICIAN, CLIENT}

PENDING == "pending"
IN_PROGRESS == "in_progress"
COMPLETED == "completed"
APPROVED == "approved"
CANCELLED == "cancelled"
WorkOrderStatus == {PENDING, IN_PROGRESS, COMPLETED, APPROVED, CANCELLED}

ACCESS_TOKEN_EXPIRE_MINUTES == 10080
\* timedelta(days=7) of a session, and max_age of its cookie
SessionDays == 7
\* cursor.to_list(1000)
ListLimit == 1000
\* f"WO-{n:05d}"
RequestIdWidth == 5

\* Python truthiness of an Optional[str] id: None and "" are falsy
Truthy(id) == id # NoneId /\ id # EmptyId

\* ------------------------------------------------------------- sequences

\* cursor.to_list(n): at most the first n documents
ToList(s, n) == SubSeq(s, 1, IF Len(s) < n THEN Len(s) ELSE n)

Reverse(s) == [i \in 1..Len(s) |-> s[Len(s) + 1 - i]]

RECURSIVE InsertDesc(_, _)
\* d put into s, which is descending in created_at, after the documents that
\* are not older than it
InsertDesc(s, d) ==
    IF Len(s) = 0 THEN <<d>>
    ELSE IF s[1].created_at >= d.created_at THEN <<s[1]>> \o InsertDesc(Tail(s), d)
    ELSE <<d>> \o s

RECURSIVE InsertionSortDesc(_)
InsertionSortDesc(s) ==
    IF Len(s) = 0 THEN <<>>
    ELSE InsertDesc(InsertionSortDesc(SubSeq(s, 1, Len(s) - 1)), s[Len(s)])

\* cursor.sort("created_at", -1): newest first.  A collection whose natural
\* order is strictly ascending in created_at is sorted by reversing it.
SortCreatedAtDesc(s) ==
    IF \A i \in 1..(Len(s) - 1) : s[i].created_at < s[i + 1].created_at
    THEN Reverse(s)
    ELSE InsertionSortDesc(s)

RECURSIVE SumRange(_, _, _)
SumRange(s, lo, hi) ==
    IF lo > hi THEN 0
    ELSE IF lo = hi THEN s[lo]
    ELSE LET mid == (lo + hi) \div 2
         IN  SumRange(s, lo, mid) + SumRange(s, mid + 1, hi)

\* sum(c['amount'] for c in all_costs)
SumAmounts(cs) == SumRange([i \in 1..Len(cs) |-> cs[i].amount], 1, Len(cs))

Range(s) == {s[i] : i \in 1..Len(s)}

\* ------------------------------------------------------------- request id

RECURSIVE Digits(_)
\* the decimal digits of n, most significant first
Digits(n) == IF n < 10 THEN <<n>> ELSE Digits(n \div 10) \o <<n % 10>>

RECURSIVE ZeroPad(_, _)
ZeroPad(ds, width) == IF Len(ds) >= width THEN ds ELSE ZeroPad(<<0>> \o ds, width)

\* f"WO-{n:05d}": the digits after "WO-"
FormatRequestId(n) == ZeroPad(Digits(n), RequestIdWidth)

RECURSIVE DigitsValue(_)
\* the number a request id denotes
DigitsValue(ds) ==
    IF Len(ds) = 0 THEN 0
    ELSE 10 * DigitsValue(SubSeq(ds, 1, Len(ds) - 1)) + ds[Len(ds)]

\* --------------------------------------------------------------- documents

NoUser == [id |-> NoneId, email |-> NoneStr, name |-> NoneStr, role |-> NoneStr,
           password_hash |-> NoneId, is_active |-> FALSE]

NoWorkOrder == [id |-> NoneId, request_id |-> <<>>, status |-> NoneStr,
                client_id |-> NoneId, client_name |-> NoneStr,
                assigned_to_id |-> NoneId, assigned_to_name |-> NoneStr,
                total_cost |-> 0, created_by_id |-> NoneId, created_at |-> 0]

NoSession == [user_id |-> NoneId, session_token |-> NoneId, expires_at |-> 0]

\* find_one(query): the first document that matches, or none
FindOne(coll, Match(_), none) ==
    LET hits == SelectSeq(coll, Match) IN IF Len(hits) = 0 THEN none ELSE hits[1]

UserById(id) == LET M(u) == u.id = id IN FindOne(users, M, NoUser)
UserByEmail(email) == LET M(u) == u.email = email IN FindOne(users, M, NoUser)
WorkOrderById(id) == LET M(w) == w.id = id IN FindOne(work_orders, M, NoWorkOrder)
SessionByToken(t) == LET M(s) == s.session_token = t IN FindOne(sessions, M, NoSession)

\* ----------------------------------------------------------- credentials

HashBase == 10

\* bcrypt.hashpw(password, salt): salted, and not the password itself
hash_password(password, salt) == salt * HashBase + password

\* bcrypt.checkpw: re-hash the password with the salt kept in the hash
verify_password(password, hashed) ==
    hash_password(password, hashed \div HashBase) = hashed

\* jwt.encode({user_id, email, exp}): a signed token
create_access_token(user_id, email) ==
    [user_id |-> user_id, email |-> email,
     exp |-> now + ACCESS_TOKEN_EXPIRE_MINUTES, sig |-> "signed"]

\* a request without an Authorization header, and one with a token that is
\* not signed with SECRET_KEY
NoBearer == [user_id |-> NoneId, email |-> NoneStr, exp |-> 0, sig |-> "absent"]
ForgedBearer == [user_id |-> NoneId, email |-> NoneStr, exp |-> 0, sig |-> "forged"]

\* decode_token: 200 and the payload, 401 for an expired token.  A token that
\* fails verification raises jwt.InvalidTokenError; the handler's clause
\* "except jwt.JWTError" names an attribute PyJWT does not have, so the
\* lookup raises AttributeError and the request ends 500.
decode_token(token) ==
    IF token.sig # "signed" THEN [code |-> 500, payload |-> NoBearer]
    ELSE IF token.exp <= now THEN [code |-> 401, payload |-> NoBearer]
    ELSE [code |-> 200, payload |-> token]


\* the lookup without the is_active test
Resolves_AnyStoredUser(user_data) == user_data # NoUser

\* the is_active test of both branches (user_data and user_data.get('is_active'))
Resolves(user_data) == user_data # NoUser /\ user_data.is_active

\* ---------------------------------------------------------------- replies

\* what the model keeps of a response: the handler, the status code, the
\* user the request resolved to, the path argument, and in body the
\* request's body or credentials followed by the returned documents
Reply(op, code, user, target, body) ==
    [op |-> op, code |-> code, user |-> user.id, role |-> user.role,
     target |-> target, body |-> body]

NoReply == [op |-> "none", code |-> 0, user |-> NoneId, role |-> NoneStr,
            target |-> NoneId, body |-> <<>>]

\* ------------------------------------------------- requests in flight

\* the number of requests the event loop serves at the same time
MaxRequests == 2

Slots == 1..MaxRequests

\* the credentials of a request that carries none
NoRequest == [cookie |-> NoneId, bearer |-> NoBearer]

\* A slot of inflight holds a coroutine suspended at an await: its handler,
\* the await it resumes from, the request's credentials, path argument and
\* body, the User object get_current_user returned, and its local variables.
Idle == [op |-> "none", pc |-> "done", req |-> NoRequest, target |-> NoneId,
         args |-> <<>>, user |-> NoUser, local |-> <<>>]

NoneInFlight == [s \in Slots |-> Idle]

Free(s) == inflight[s].op = "none"

At(s, op, pc) == inflight[s].op = op /\ inflight[s].pc = pc

\* a request as it arrives
Arriving(op, req, target, args) ==
    [op |-> op, pc |-> "arrive", req |-> req, target |-> target, args |-> args,
     user |-> NoUser, local |-> <<>>]

\* the coroutine of slot s waits at the await pc
Suspend(s, r, pc, local) ==
    /\ inflight' = [inflight EXCEPT ![s] = [r EXCEPT !.pc = pc, !.local = local]]
    /\ resp' = NoReply

\* the coroutine of slot s returns or raises HTTPException
Answer(s, r, code, body) ==
    /\ inflight' = [inflight EXCEPT ![s] = Idle]
    /\ resp' = Reply(r.op, code, r.user, r.target, body)

\* the collections and what clients hold, the clock and the id counter
StoreVars == <<users, sessions, work_orders, cost_entries, notifications,
               company_settings, issued, cookies, now, wo_seq>>

\* ------------------------------------------------------ authentication

\* the roles a handler's Depends(require_role([...])) lets in; a handler
\* with Depends(get_current_user) lets every role in
AllowedRoles(op) ==
    CASE op \in {"create_work_order", "delete_work_order",
                 "create_preventive_maintenance"} -> {ADMIN, SUPERVISOR}
      [] op = "create_cost_entry" -> {ADMIN, SUPERVISOR, TECHNICIAN}
      [] op \in {"update_user", "deactivate_user", "update_settings"} -> {ADMIN}
      [] OTHER -> UserRole

\* how a piece of handler code ends: it raises or returns (a reply), or it
\* reaches its next await
Replying(user, code, body) ==
    [kind |-> "reply", user |-> user, code |-> code, body |-> body,
     pc |-> "done", local |-> <<>>]

Awaiting(user, pc, local) ==
    [kind |-> "await", user |-> user, code |-> 0, body |-> <<>>,
     pc |-> pc, local |-> local]

\* the replies of get_me carry the request's credentials
AuthBody(r) == IF r.op = "get_me" THEN <<r.req>> ELSE <<>>

\* update_settings: {k: v for k, v in updates.model_dump().items() if v is
\* not None}, then update_data['updated_at'] = now
UpdateData(updates) ==
    [k \in {f \in DOMAIN updates : updates[f] # NoneStr} \cup {"updated_at"} |->
       IF k = "updated_at" THEN now ELSE updates[k]]

\* the handler's own code from its entry to its first await
Entry(r, current_user) ==
    CASE r.op = "get_me" -> Replying(current_user, 200, <<r.req>>)
      [] r.op = "get_work_orders" -> Awaiting(current_user, "find", <<>>)
      [] r.op = "create_work_order" -> Awaiting(current_user, "count_documents", <<>>)
      [] r.op = "update_work_order" -> Awaiting(current_user, "find_one", <<>>)
      [] r.op = "delete_work_order" -> Awaiting(current_user, "delete_one", <<>>)
      [] r.op = "create_cost_entry" -> Awaiting(current_user, "find_one", <<>>)
      [] r.op = "create_preventive_maintenance" ->
            IF Truthy(r.args[1].assigned_to_id)
            THEN Awaiting(current_user, "find_one", <<>>)
            ELSE Awaiting(current_user, "insert_one", <<>>)
      [] r.op = "mark_notification_read" -> Awaiting(current_user, "update_one", <<>>)
      [] r.op = "mark_all_notifications_read" ->
            Awaiting(current_user, "update_many", <<>>)
      [] r.op = "update_user" ->
            IF "password" \in DOMAIN r.args[1] \/ "password_hash" \in DOMAIN r.args[1]
            THEN Replying(current_user, 400, <<>>)
            ELSE Awaiting(current_user, "update_one", <<>>)
      [] r.op = "deactivate_user" -> Awaiting(current_user, "update_one", <<>>)
      [] r.op = "get_settings" -> Awaiting(current_user, "find_one", <<>>)
      [] r.op = "update_settings" ->
            Awaiting(current_user, "update_one", <<UpdateData(r.args[1])>>)

\* require_role(allowed_roles): the role test on the User object returned by
\* get_current_user, then the handler
require_role(r, current_user) ==
    IF current_user.role \notin AllowedRoles(r.op)
    THEN Replying(current_user, 403, AuthBody(r))
    ELSE Entry(r, current_user)

\* get_current_user, bearer branch: users.find_one({"id": payload.user_id})
get_current_user_bearer_user(r, user_id) ==
    LET user_data == UserById(user_id)
    IN  IF Resolves(user_data) THEN require_role(r, user_data)
        ELSE Replying(NoUser, 401, AuthBody(r))

\* get_current_user, bearer branch up to its await: the Authorization header
\* and decode_token, which reads the clock; the coroutine then waits for
\* users.find_one
get_current_user_header(r) ==
    IF r.req.bearer.sig = "absent" THEN Replying(NoUser, 401, AuthBody(r))
    ELSE LET dec == decode_token(r.req.bearer)
         IN  IF dec.code # 200 THEN Replying(NoUser, dec.code, AuthBody(r))
             ELSE Awaiting(NoUser, "auth_bearer_user", <<dec.payload.user_id>>)

\* get_current_user, cookie branch: sessions.find_one({"session_token": ...})
\* and the expiry test
get_current_user_session(r) ==
    LET session == SessionByToken(r.req.cookie)
    IN  IF session # NoSession /\ session.expires_at > now
        THEN Awaiting(NoUser, "auth_session_user", <<session.user_id>>)
        ELSE get_current_user_header(r)

\* get_current_user, cookie branch: users.find_one({"id": session['user_id']})
get_current_user_session_user(r) ==
    LET user_data == UserById(r.local[1])
    IN  IF Resolves(user_data) THEN require_role(r, user_data)
        ELSE get_current_user_header(r)

\* get_current_user(request), from the arrival of the request
get_current_user(r) ==
    IF r.req.cookie # NoneId THEN get_current_user_session(r)
    ELSE get_current_user_header(r)

\* a step of get_current_user ends: the store is only read
Settle(s, r, out) ==
    /\ IF out.kind = "reply"
       THEN Answer(s, [r EXCEPT !.user = out.user], out.code, out.body)
       ELSE Suspend(s, [r EXCEPT !.user = out.user], out.pc, out.local)
    /\ UNCHANGED StoreVars

\* a request to a handler with Depends(get_current_user) arrives
Arrive(s, op, req, target, args) ==
    /\ Free(s)
    /\ Settle(s, Arriving(op, req, target, args),
              get_current_user(Arriving(op, req, target, args)))

\* get_current_user resumes after sessions.find_one
auth_session_user(s) ==
    /\ ~Free(s)
    /\ inflight[s].pc = "auth_session_user"
    /\ Settle(s, inflight[s], get_current_user_session_user(inflight[s]))

\* get_current_user resumes at users.find_one of the bearer branch
auth_bearer_user(s) ==
    /\ ~Free(s)
    /\ inflight[s].pc = "auth_bearer_user"
    /\ Settle(s, inflight[s],
              get_current_user_bearer_user(inflight[s], inflight[s].local[1]))

\* create_notification: one Notification document appended
Notification(user_id, title, link, rank) ==
    [id |-> rank, user_id |-> user_id, title |-> title, link |-> link, is_read |-> FALSE]

create_notification(notifs, user_id, title, link) ==
    Append(notifs, Notification(user_id, title, link, Len(notifs) + 1))

\* update_one({"id": id}, {"$set": ...}) on a collection: the first document
\* with that id is replaced by Set(document)
UpdateOne(coll, id, Set(_)) ==
    LET hit == {i \in 1..Len(coll) : coll[i].id = id}
    IN  IF hit = {} THEN coll
        ELSE LET first == CHOOSE i \in hit : \A j \in hit : i <= j
             IN  [coll EXCEPT ![first] = Set(coll[first])]

\* delete_one({"id": id}): the first document with that id is removed
DeleteOne(coll, id) ==
    LET hit == {i \in 1..Len(coll) : coll[i].id = id}
    IN  IF hit = {} THEN coll
        ELSE LET first == CHOOSE i \in hit : \A j \in hit : i <= j
             IN  SubSeq(coll, 1, first - 1) \o SubSeq(coll, first + 1, Len(coll))

\* what a step that writes one collection leaves alone
ExceptUsers == <<sessions, work_orders, cost_entries, notifications,
                 company_settings, issued, cookies, now, wo_seq>>
ExceptSessions == <<users, work_orders, cost_entries, notifications,
                    company_settings, issued, cookies, now, wo_seq>>
ExceptWorkOrders == <<users, sessions, cost_entries, notifications,
                      company_settings, issued, cookies, now, wo_seq>>
ExceptCostEntries == <<users, sessions, work_orders, notifications,
                       company_settings, issued, cookies, now, wo_seq>>
ExceptNotifications == <<users, sessions, work_orders, cost_entries,
                         company_settings, issued, cookies, now, wo_seq>>
ExceptSettings == <<users, sessions, work_orders, cost_entries, notifications,
                    issued, cookies, now, wo_seq>>

\* ------------------------------------------------------------ work orders

\* get_work_orders: the query built from the caller's role
ListQuery(current_user, w) ==
    IF current_user.role = CLIENT THEN w.client_id = current_user.id
    ELSE IF current_user.role = TECHNICIAN THEN w.assigned_to_id = current_user.id
    ELSE TRUE

\* GET /work-orders: find(query).sort("created_at", -1).to_list(1000)
get_work_orders_find(s) ==
    LET r == inflight[s]
        Q(w) == ListQuery(r.user, w)
        found == ToList(SortCreatedAtDesc(SelectSeq(work_orders, Q)), ListLimit)
    IN  /\ At(s, "get_work_orders", "find")
        /\ Answer(s, r, 200, found)
        /\ UNCHANGED StoreVars

\* WorkOrder(...): the document create_work_order builds
WorkOrder(rank, request_id, wo_data, client_name, assigned_to_name, current_user) ==
    [id |-> rank, request_id |-> request_id, status |-> PENDING,
     client_id |-> wo_data.client_id, client_name |-> client_name,
     assigned_to_id |-> wo_data.assigned_to_id,
     assigned_to_name |-> assigned_to_name,
     total_cost |-> 0, created_by_id |-> current_user.id, created_at |-> rank]

\* POST /work-orders: count = await db.work_orders.count_documents({})
create_work_order_count_documents(s) ==
    LET r == inflight[s]
        count == Len(work_orders)
        request_id == FormatRequestId(count + 1)
    IN  /\ At(s, "create_work_order", "count_documents")
        /\ Suspend(s, r, "client_find_one", <<request_id>>)
        /\ UNCHANGED StoreVars

\* client = await db.users.find_one({"id": wo_data.client_id}); without an
\* assignee id the WorkOrder is built here
create_work_order_client_find_one(s) ==
    LET r == inflight[s]
        wo_data == r.args[1]
        client == UserById(wo_data.client_id)
        work_order == WorkOrder(wo_seq + 1, r.local[1], wo_data, client.name,
                                NoneStr, r.user)
    IN  /\ At(s, "create_work_order", "client_find_one")
        /\ IF client = NoUser
           THEN /\ Answer(s, r, 404, <<>>)
                /\ UNCHANGED StoreVars
           ELSE IF Truthy(wo_data.assigned_to_id)
           THEN /\ Suspend(s, r, "tech_find_one", <<r.local[1], client.name>>)
                /\ UNCHANGED StoreVars
           ELSE /\ Suspend(s, r, "insert_one", <<work_order>>)
                /\ wo_seq' = wo_seq + 1
                /\ UNCHANGED <<users, sessions, work_orders, cost_entries,
                               notifications, company_settings, issued, cookies, now>>

\* tech = await db.users.find_one({"id": wo_data.assigned_to_id}), then the
\* WorkOrder is built
create_work_order_tech_find_one(s) ==
    LET r == inflight[s]
        wo_data == r.args[1]
        tech == UserById(wo_data.assigned_to_id)
        assigned_to_name == IF tech # NoUser THEN tech.name ELSE NoneStr
        work_order == WorkOrder(wo_seq + 1, r.local[1], wo_data, r.local[2],
                                assigned_to_name, r.user)
    IN  /\ At(s, "create_work_order", "tech_find_one")
        /\ Suspend(s, r, "insert_one", <<work_order>>)
        /\ wo_seq' = wo_seq + 1
        /\ UNCHANGED <<users, sessions, work_orders, cost_entries,
                       notifications, company_settings, issued, cookies, now>>

\* await db.work_orders.insert_one(work_order.model_dump())
create_work_order_insert_one(s) ==
    LET r == inflight[s]
    IN  /\ At(s, "create_work_order", "insert_one")
        /\ work_orders' = Append(work_orders, r.local[1])
        /\ Suspend(s, r, "notify_client", r.local)
        /\ UNCHANGED ExceptWorkOrders

\* a create that tells nobody but the client
NotifiesAssignee_Never(wo_data) == FALSE

\* create_work_order: if wo_data.assigned_to_id
NotifiesAssignee(wo_data) == Truthy(wo_data.assigned_to_id)

\* await create_notification(wo_data.client_id, "New Work Order", ...)
create_work_order_notify_client(s) ==
    LET r == inflight[s]
        wo_data == r.args[1]
        work_order == r.local[1]
    IN  /\ At(s, "create_work_order", "notify_client")
        /\ notifications' = create_notification(notifications, wo_data.client_id,
                                                "New Work Order", work_order.id)
        /\ IF NotifiesAssignee(wo_data)
           THEN Suspend(s, r, "notify_assignee", r.local)
           ELSE Answer(s, r, 200, <<work_order>>)
        /\ UNCHANGED ExceptNotifications

\* await create_notification(wo_data.assigned_to_id, "New Assignment", ...)
create_work_order_notify_assignee(s) ==
    LET r == inflight[s]
        wo_data == r.args[1]
        work_order == r.local[1]
    IN  /\ At(s, "create_work_order", "notify_assignee")
        /\ notifications' = create_notification(notifications, wo_data.assigned_to_id,
                                                "New Assignment", work_order.id)
        /\ Answer(s, r, 200, <<work_order>>)
        /\ UNCHANGED ExceptNotifications

\* the permission test without its client line
UpdateForbidden_NoClientTest(current_user, work_order) ==
    current_user.role = TECHNICIAN /\ work_order.assigned_to_id # current_user.id

\* update_work_order: the permission test on the loaded order
UpdateForbidden(current_user, work_order) ==
    \/ current_user.role = CLIENT
    \/ current_user.role = TECHNICIAN /\ work_order.assigned_to_id # current_user.id

\* update_work_order: update_data merged into the stored document
\* ({k: v for k, v in updates if v is not None}, plus the resolved name)
MergeUpdate(w, updates, tech) ==
    [w EXCEPT
       !.status = IF updates.status # NoneStr THEN updates.status ELSE @,
       !.assigned_to_id = IF updates.assigned_to_id # NoneId
                          THEN updates.assigned_to_id ELSE @,
       !.assigned_to_name = IF Truthy(updates.assigned_to_id) /\ tech # NoUser
                            THEN tech.name ELSE @,
       !.total_cost = IF updates.total_cost # NoneId THEN updates.total_cost ELSE @]

\* PATCH /work-orders/{id}: work_order = await db.work_orders.find_one(...),
\* the permission test and update_data
update_work_order_find_one(s) ==
    LET r == inflight[s]
        updates == r.args[1]
        work_order == WorkOrderById(r.target)
    IN  /\ At(s, "update_work_order", "find_one")
        /\ IF work_order = NoWorkOrder THEN Answer(s, r, 404, <<>>)
           ELSE IF UpdateForbidden(r.user, work_order) THEN Answer(s, r, 403, <<>>)
           ELSE IF Truthy(updates.assigned_to_id)
           THEN Suspend(s, r, "tech_find_one", <<work_order, NoUser>>)
           ELSE Suspend(s, r, "update_one", <<work_order, NoUser>>)
        /\ UNCHANGED StoreVars

\* tech = await db.users.find_one({"id": update_data['assigned_to_id']})
update_work_order_tech_find_one(s) ==
    LET r == inflight[s]
        tech == UserById(r.args[1].assigned_to_id)
    IN  /\ At(s, "update_work_order", "tech_find_one")
        /\ IF tech # NoUser
           THEN Suspend(s, r, "notify_assignee", <<r.local[1], tech>>)
           ELSE Suspend(s, r, "update_one", <<r.local[1], NoUser>>)
        /\ UNCHANGED StoreVars

\* await create_notification(update_data['assigned_to_id'], "New Assignment", ...)
update_work_order_notify_assignee(s) ==
    LET r == inflight[s]
    IN  /\ At(s, "update_work_order", "notify_assignee")
        /\ notifications' = create_notification(notifications, r.args[1].assigned_to_id,
                                                "New Assignment", r.target)
        /\ Suspend(s, r, "update_one", r.local)
        /\ UNCHANGED ExceptNotifications

\* await db.work_orders.update_one({"id": work_order_id}, {"$set": update_data})
update_work_order_update_one(s) ==
    LET r == inflight[s]
        updates == r.args[1]
        Set(w) == MergeUpdate(w, updates, r.local[2])
    IN  /\ At(s, "update_work_order", "update_one")
        /\ work_orders' = UpdateOne(work_orders, r.target, Set)
        /\ IF updates.status # NoneStr
           THEN Suspend(s, r, "notify_client", r.local)
           ELSE Suspend(s, r, "find_one_updated", r.local)
        /\ UNCHANGED ExceptWorkOrders

\* await create_notification(work_order['client_id'], "Work Order Updated", ...)
update_work_order_notify_client(s) ==
    LET r == inflight[s]
    IN  /\ At(s, "update_work_order", "notify_client")
        /\ notifications' = create_notification(notifications, r.local[1].client_id,
                                                "Work Order Updated", r.target)
        /\ Suspend(s, r, "find_one_updated", r.local)
        /\ UNCHANGED ExceptNotifications

\* updated_work_order = await db.work_orders.find_one(...); returning None
\* fails response_model=WorkOrder and the request ends 500
update_work_order_find_one_updated(s) ==
    LET r == inflight[s]
        updated_work_order == WorkOrderById(r.target)
    IN  /\ At(s, "update_work_order", "find_one_updated")
        /\ IF updated_work_order = NoWorkOrder THEN Answer(s, r, 500, <<>>)
           ELSE Answer(s, r, 200, <<updated_work_order>>)
        /\ UNCHANGED StoreVars

\* DELETE /work-orders/{id}: result = await db.work_orders.delete_one(...)
delete_work_order_delete_one(s) ==
    LET r == inflight[s]
        after == DeleteOne(work_orders, r.target)
    IN  /\ At(s, "delete_work_order", "delete_one")
        /\ work_orders' = after
        /\ IF Len(after) = Len(work_orders) THEN Answer(s, r, 404, <<>>)
           ELSE Answer(s, r, 200, <<>>)
        /\ UNCHANGED ExceptWorkOrders

\* ----------------------------------------------------------- cost entries

\* create_cost_entry: the recomputed total of a work order
\* (find({"work_order_id": id}).to_list(1000), then sum of the amounts)
RecomputeTotal(costs, work_order_id) ==
    LET Q(c) == c.work_order_id = work_order_id
    IN  SumAmounts(ToList(SelectSeq(costs, Q), ListLimit))

\* POST /work-orders/{id}/costs: work_order = await db.work_orders.find_one(...)
create_cost_entry_find_one(s) ==
    LET r == inflight[s]
    IN  /\ At(s, "create_cost_entry", "find_one")
        /\ IF WorkOrderById(r.target) = NoWorkOrder THEN Answer(s, r, 404, <<>>)
           ELSE Suspend(s, r, "insert_one", <<>>)
        /\ UNCHANGED StoreVars

\* await db.cost_entries.insert_one(cost_entry.model_dump())
create_cost_entry_insert_one(s) ==
    LET r == inflight[s]
        cost_entry == [id |-> Len(cost_entries) + 1, work_order_id |-> r.target,
                       amount |-> r.args[1], created_by_id |-> r.user.id]
    IN  /\ At(s, "create_cost_entry", "insert_one")
        /\ cost_entries' = Append(cost_entries, cost_entry)
        /\ Suspend(s, r, "find", <<cost_entry>>)
        /\ UNCHANGED ExceptCostEntries

\* all_costs = await db.cost_entries.find(...).to_list(1000), then the sum
create_cost_entry_find(s) ==
    LET r == inflight[s]
        total_cost == RecomputeTotal(cost_entries, r.target)
    IN  /\ At(s, "create_cost_entry", "find")
        /\ Suspend(s, r, "update_one", <<r.local[1], total_cost>>)
        /\ UNCHANGED StoreVars

\* await db.work_orders.update_one({"id": ...}, {"$set": {"total_cost": ...}})
create_cost_entry_update_one(s) ==
    LET r == inflight[s]
        Set(w) == [w EXCEPT !.total_cost = r.local[2]]
    IN  /\ At(s, "create_cost_entry", "update_one")
        /\ work_orders' = UpdateOne(work_orders, r.target, Set)
        /\ Answer(s, r, 200, <<r.local[1]>>)
        /\ UNCHANGED ExceptWorkOrders

\* ------------------------------------------------ preventive maintenance

\* the link of a preventive-maintenance notification ("/preventive-maintenance")
PreventiveMaintenanceLink == -2

\* POST /preventive-maintenance: tech = await db.users.find_one(...); the
\* name found goes into the PreventiveMaintenance document
create_preventive_maintenance_find_one(s) ==
    /\ At(s, "create_preventive_maintenance", "find_one")
    /\ Suspend(s, inflight[s], "insert_one", <<>>)
    /\ UNCHANGED StoreVars

\* await db.preventive_maintenance.insert_one(pm.model_dump()); no handler
\* the model follows reads that collection
create_preventive_maintenance_insert_one(s) ==
    LET r == inflight[s]
    IN  /\ At(s, "create_preventive_maintenance", "insert_one")
        /\ IF Truthy(r.args[1].assigned_to_id)
           THEN Suspend(s, r, "notify_assignee", <<>>)
           ELSE Answer(s, r, 200, <<>>)
        /\ UNCHANGED StoreVars

\* await create_notification(pm_data.assigned_to_id, "New Preventive ...")
create_preventive_maintenance_notify_assignee(s) ==
    LET r == inflight[s]
    IN  /\ At(s, "create_preventive_maintenance", "notify_assignee")
        /\ notifications' =
              create_notification(notifications, r.args[1].assigned_to_id,
                                  "New Preventive Maintenance Task",
                                  PreventiveMaintenanceLink)
        /\ Answer(s, r, 200, <<>>)
        /\ UNCHANGED ExceptNotifications

\* ---------------------------------------------------------- notifications

\* a filter that leaves the owner out
MarkAllFilter_Everyone(current_user, n) == TRUE

\* mark_all_notifications_read: the filter of update_many
MarkAllFilter(current_user, n) == n.user_id = current_user.id

\* update_many(filter, {"$set": {"is_read": True}})
MarkAllApplied(notifs, current_user) ==
    [i \in 1..Len(notifs) |->
       IF MarkAllFilter(current_user, notifs[i])
       THEN [notifs[i] EXCEPT !.is_read = TRUE]
       ELSE notifs[i]]

\* POST /notifications/mark-all-read: await db.notifications.update_many(...)
mark_all_notifications_read_update_many(s) ==
    LET r == inflight[s]
    IN  /\ At(s, "mark_all_notifications_read", "update_many")
        /\ notifications' = MarkAllApplied(notifications, r.user)
        /\ Answer(s, r, 200, <<>>)
        /\ UNCHANGED ExceptNotifications

\* PATCH /notifications/{notification_id}/read:
\* update_one({"id": notification_id, "user_id": current_user.id}, ...)
mark_notification_read_update_one(s) ==
    LET r == inflight[s]
        hit == {i \in 1..Len(notifications) :
                  /\ notifications[i].id = r.target
                  /\ notifications[i].user_id = r.user.id}
    IN  /\ At(s, "mark_notification_read", "update_one")
        /\ IF hit = {}
           THEN /\ Answer(s, r, 404, <<>>)
                /\ UNCHANGED notifications
           ELSE /\ notifications' =
                      [notifications EXCEPT
                         ![CHOOSE i \in hit : \A j \in hit : i <= j].is_read = TRUE]
                /\ Answer(s, r, 200, <<>>)
        /\ UNCHANGED ExceptNotifications

\* ------------------------------------------------------------------ users

\* {"$set": updates} on a stored document
SetFields(u, updates) ==
    [k \in DOMAIN u \cup DOMAIN updates |->
       IF k \in DOMAIN updates THEN updates[k] ELSE u[k]]

\* PATCH /users/{user_id}: result = await db.users.update_one(...)
update_user_update_one(s) ==
    LET r == inflight[s]
        Set(u) == SetFields(u, r.args[1])
    IN  /\ At(s, "update_user", "update_one")
        /\ users' = UpdateOne(users, r.target, Set)
        /\ IF UserById(r.target) = NoUser THEN Answer(s, r, 404, <<>>)
           ELSE Answer(s, r, 200, <<>>)
        /\ UNCHANGED ExceptUsers

\* DELETE /users/{user_id}: update_one(..., {"$set": {"is_active": False}})
deactivate_user_update_one(s) ==
    LET r == inflight[s]
        Set(u) == [u EXCEPT !.is_active = FALSE]
    IN  /\ At(s, "deactivate_user", "update_one")
        /\ users' = UpdateOne(users, r.target, Set)
        /\ IF UserById(r.target) = NoUser THEN Answer(s, r, 404, <<>>)
           ELSE Answer(s, r, 200, <<>>)
        /\ UNCHANGED ExceptUsers

\* ------------------------------------------------------------- settings

SettingsId == "company_settings"

\* CompanySettings(): the defaults of the model class, stamped with the clock
CompanySettings ==
    [id |-> SettingsId, company_name |-> "My Company", logo_url |-> NoneStr,
     primary_color |-> "#3b82f6", secondary_color |-> "#10b981",
     timezone |-> "UTC", updated_at |-> now]

NoSettings == [id |-> NoneStr, company_name |-> NoneStr, logo_url |-> NoneStr,
               primary_color |-> NoneStr, secondary_color |-> NoneStr,
               timezone |-> NoneStr, updated_at |-> 0]

SettingsById(id) ==
    LET M(d) == d.id = id IN FindOne(company_settings, M, NoSettings)

\* response_model=CompanySettings on a stored document: a field the
\* document lacks takes the default of the class
AsCompanySettings(d) ==
    [k \in DOMAIN CompanySettings |-> IF k \in DOMAIN d THEN d[k] ELSE CompanySettings[k]]

\* GET /settings: settings = await db.company_settings.find_one(...)
get_settings_find_one(s) ==
    LET r == inflight[s]
        settings == SettingsById(SettingsId)
    IN  /\ At(s, "get_settings", "find_one")
        /\ IF settings.id # SettingsId
           THEN Suspend(s, r, "insert_one", <<CompanySettings>>)
           ELSE Answer(s, r, 200, <<AsCompanySettings(settings)>>)
        /\ UNCHANGED StoreVars

\* await db.company_settings.insert_one(default_settings.model_dump())
get_settings_insert_one(s) ==
    LET r == inflight[s]
        default_settings == r.local[1]
    IN  /\ At(s, "get_settings", "insert_one")
        /\ company_settings' = Append(company_settings, default_settings)
        /\ Answer(s, r, 200, <<default_settings>>)
        /\ UNCHANGED ExceptSettings

\* PATCH /settings: update_one({"id": "company_settings"}, {"$set": ...},
\* upsert=True)
update_settings_update_one(s) ==
    LET r == inflight[s]
        update_data == r.local[1]
        Set(d) == SetFields(d, update_data)
    IN  /\ At(s, "update_settings", "update_one")
        /\ company_settings' =
              IF SettingsById(SettingsId).id # SettingsId
              THEN Append(company_settings, SetFields([id |-> SettingsId], update_data))
              ELSE UpdateOne(company_settings, SettingsId, Set)
        /\ Answer(s, r, 200, <<>>)
        /\ UNCHANGED ExceptSettings

\* ------------------------------------------------------------------- auth

\* a register that does not look at what find_one returned
EmailTaken_Never(existing) == FALSE

\* register: "if existing" on the result of find_one({"email": ...})
EmailTaken(existing) == existing # NoUser

\* POST /auth/register: existing = await db.users.find_one({"email": ...});
\* salt is the value bcrypt.gensalt() draws
register_find_one(s, user_data, salt) ==
    LET r == Arriving("register", NoRequest, NoneId, <<user_data, salt>>)
        existing == UserByEmail(user_data.email)
    IN  /\ Free(s)
        /\ IF EmailTaken(existing) THEN Answer(s, r, 400, <<user_data>>)
           ELSE Suspend(s, r, "insert_one", <<>>)
        /\ UNCHANGED StoreVars

\* await db.users.insert_one(user.model_dump()), then the token
register_insert_one(s) ==
    LET r == inflight[s]
        user_data == r.args[1]
        user == [id |-> Len(users) + 1, email |-> user_data.email,
                 name |-> user_data.name, role |-> user_data.role,
                 password_hash |-> hash_password(user_data.password, r.args[2]),
                 is_active |-> TRUE]
        token == create_access_token(user.id, user.email)
    IN  /\ At(s, "register", "insert_one")
        /\ users' = Append(users, user)
        /\ issued' = issued \cup {token}
        /\ Answer(s, [r EXCEPT !.user = user], 200, <<user_data, token>>)
        /\ UNCHANGED <<sessions, work_orders, cost_entries, notifications,
                       company_settings, cookies, now, wo_seq>>

\* login: the tests that end 401
LoginRefused(user_data, password) ==
    \/ user_data = NoUser
    \/ user_data.password_hash = NoneId
    \/ ~verify_password(password, user_data.password_hash)
    \/ ~user_data.is_active

\* POST /auth/login: user_data = await db.users.find_one({"email": ...})
login(s, credentials) ==
    LET r == Arriving("login", NoRequest, NoneId, <<credentials>>)
        user_data == UserByEmail(credentials.email)
        token == create_access_token(user_data.id, user_data.email)
    IN  /\ Free(s)
        /\ IF LoginRefused(user_data, credentials.password)
           THEN /\ Answer(s, r, 401, <<credentials>>)
                /\ UNCHANGED issued
           ELSE /\ issued' = issued \cup {token}
                /\ Answer(s, [r EXCEPT !.user = user_data], 200, <<credentials, token>>)
        /\ UNCHANGED <<users, sessions, work_orders, cost_entries, notifications,
                       company_settings, cookies, now, wo_seq>>

\* SessionData(user_id, session_token, expires_at = now + timedelta(days=7))
SessionData(user_id, session_token) ==
    [user_id |-> user_id, session_token |-> session_token,
     expires_at |-> now + SessionDays * 24 * 60]

\* POST /auth/google/session; session_data is what the identity exchange
\* answers: [ok, email, name, session_token].  The exchange is a blocking
\* call; the first await is users.find_one({"email": email})
process_google_session_find_one(s, session_data) ==
    LET r == Arriving("process_google_session", NoRequest, NoneId, <<session_data>>)
        user_data == UserByEmail(session_data.email)
    IN  /\ Free(s)
        /\ IF ~session_data.ok THEN Answer(s, r, 400, <<>>)
           ELSE IF user_data = NoUser THEN Suspend(s, r, "users_insert_one", <<>>)
           ELSE Suspend(s, r, "sessions_insert_one",
                        <<SessionData(user_data.id, session_data.session_token)>>)
        /\ UNCHANGED StoreVars

\* await db.users.insert_one(user.model_dump()): a new CLIENT user
process_google_session_users_insert_one(s) ==
    LET r == inflight[s]
        session_data == r.args[1]
        user == [id |-> Len(users) + 1, email |-> session_data.email,
                 name |-> session_data.name, role |-> CLIENT,
                 password_hash |-> NoneId, is_active |-> TRUE]
    IN  /\ At(s, "process_google_session", "users_insert_one")
        /\ users' = Append(users, user)
        /\ Suspend(s, r, "sessions_insert_one",
                   <<SessionData(user.id, session_data.session_token)>>)
        /\ UNCHANGED ExceptUsers

\* await db.sessions.insert_one(session.model_dump()), then set_cookie
process_google_session_sessions_insert_one(s) ==
    LET r == inflight[s]
    IN  /\ At(s, "process_google_session", "sessions_insert_one")
        /\ sessions' = Append(sessions, r.local[1])
        /\ Suspend(s, r, "user_find_one", r.local)
        /\ UNCHANGED ExceptSessions

\* user_data = await db.users.find_one({"id": user_id}); the response
\* carries the cookie to the client.  When the lookup finds nothing,
\* user_data['id'] raises TypeError: the request ends 500 and the response
\* with the cookie is never sent.
process_google_session_user_find_one(s) ==
    LET r == inflight[s]
        user_data == UserById(r.local[1].user_id)
    IN  /\ At(s, "process_google_session", "user_find_one")
        /\ IF user_data = NoUser
           THEN /\ cookies' = cookies
                /\ Answer(s, r, 500, <<>>)
           ELSE /\ cookies' = cookies \cup {r.args[1].session_token}
                /\ Answer(s, [r EXCEPT !.user = user_data], 200, <<>>)
        /\ UNCHANGED <<users, sessions, work_orders, cost_entries, notifications,
                       company_settings, issued, now, wo_seq>>

\* POST /auth/logout: await db.sessions.delete_many({"session_token": ...})
logout(s, cookie) ==
    LET r == Arriving("logout", [cookie |-> cookie, bearer |-> NoBearer], cookie, <<>>)
        Keep(d) == d.session_token # cookie
    IN  /\ Free(s)
        /\ sessions' = IF cookie # NoneId THEN SelectSeq(sessions, Keep) ELSE sessions
        /\ Answer(s, r, 200, <<>>)
        /\ UNCHANGED ExceptSessions

\* datetime.now(timezone.utc) moves on; the step is no request and has no
\* reply
Elapse(minutes) ==
    /\ now' = now + minutes
    /\ resp' = NoReply
    /\ UNCHANGED <<users, sessions, work_orders, cost_entries, notifications,
                   company_settings, issued, cookies, wo_seq, inflight>>

\* ------------------------------------------------------ the store at start

\* the store after construction: every collection is empty
Init ==
    /\ now = 0
    /\ users = <<>>
    /\ sessions = <<>>
    /\ work_orders = <<>>
    /\ cost_entries = <<>>
    /\ notifications = <<>>
    /\ issued = {}
    /\ cookies = {}
    /\ wo_seq = 0
    /\ company_settings = <<>>
    /\ inflight = NoneInFlight
    /\ resp = NoReply

\* the users of a store in which five register requests have been served at
\* time 0: an admin, a supervisor, two technicians and a client
SeedAdmin == 1
SeedSupervisor == 2
SeedTechA == 3
SeedTechB == 4
SeedClient == 5

SeedUser(id, email, name, role) ==
    [id |-> id, email |-> email, name |-> name, role |-> role,
     password_hash |-> hash_password(1, 1), is_active |-> TRUE]

SeedUsers ==
    << SeedUser(SeedAdmin, "root@x", "root", ADMIN),
       SeedUser(SeedSupervisor, "sue@x", "sue", SUPERVISOR),
       SeedUser(SeedTechA, "tom@x", "tom", TECHNICIAN),
       SeedUser(SeedTechB, "tim@x", "tim", TECHNICIAN),
       SeedUser(SeedClient, "cat@x", "cat", CLIENT) >>

InitSeeded ==
    /\ now = 0
    /\ users = SeedUsers
    /\ sessions = <<>>
    /\ work_orders = <<>>
    /\ cost_entries = <<>>
    /\ notifications = <<>>
    /\ issued = {create_access_token(SeedUsers[i].id, SeedUsers[i].email) : i \in 1..Len(SeedUsers)}
    /\ cookies = {}
    /\ wo_seq = 0
    /\ company_settings = <<>>
    /\ inflight = NoneInFlight
    /\ resp = NoReply

\* ---------------------------------------------------- account requests

MaxUsers == 2
MaxSessions == 1
MaxTokens == 2
MaxElapses == 1

Emails == {"ann@x", "bob@x"}
Passwords == {1, 2}

\* the register bodies: two people give the same email, a third another one
RegisterInputs ==
    { [email |-> "ann@x", name |-> "ann", password |-> 1, role |-> ADMIN],
      [email |-> "ann@x", name |-> "anna", password |-> 2, role |-> ADMIN],
      [email |-> "bob@x", name |-> "bob", password |-> 2, role |-> ADMIN] }

\* the name the identity provider knows for an email
ProviderName(email) == IF email = "ann@x" THEN "ann g" ELSE "bob g"
\* what bcrypt.gensalt() draws; no handler compares two hashes, so one value
\* stands for all
Salts == {1}

\* the credentials a caller can hold: a cookie that was set, a token that was
\* issued, or neither
Credentials ==
    [cookie : cookies \cup {NoneId}, bearer : issued \cup {NoBearer}]

\* the credentials of a caller that holds no cookie
BearerOnly == [cookie : {NoneId}, bearer : issued \cup {NoBearer}]

\* a new request is taken by the first coroutine slot that is free
Accepting(s) == Free(s) /\ \A t \in Slots : t < s => ~Free(t)

\* the requests in flight that are about to insert a user
AddingUser ==
    {s \in Slots : \/ At(s, "register", "insert_one")
                   \/ At(s, "process_google_session", "users_insert_one")}

\* the external-session exchanges in flight
AddingSession == {s \in Slots : inflight[s].op = "process_google_session"}

Register ==
    /\ Len(users) + Cardinality(AddingUser) < MaxUsers
    /\ \E s \in Slots, user_data \in RegisterInputs, salt \in Salts :
          Accepting(s) /\ register_find_one(s, user_data, salt)

\* the register requests of the account specification: one per email
SignUp ==
    /\ Len(users) + Cardinality(AddingUser) < MaxUsers
    /\ \E s \in Slots, user_data \in {d \in RegisterInputs : d.name \in {"ann", "bob"}},
          salt \in Salts :
          Accepting(s) /\ register_find_one(s, user_data, salt)

RegisterInsertOne ==
    /\ \E s \in Slots : register_insert_one(s)
    /\ Cardinality(issued') <= MaxTokens

Login ==
    /\ \E s \in Slots, credentials \in [email : Emails, password : Passwords] :
          Accepting(s) /\ login(s, credentials)
    /\ Cardinality(issued') <= MaxTokens

\* the identity exchange fails, or answers with an email, a name and a
\* session token it has not handed out before
GoogleSession ==
    /\ Len(sessions) + Cardinality(AddingSession) < MaxSessions
    /\ Len(users) + Cardinality(AddingUser) < MaxUsers
    /\ \E s \in Slots :
          /\ Accepting(s)
          /\ \/ process_google_session_find_one(s,
                   [ok |-> FALSE, email |-> NoneStr, name |-> NoneStr,
                    session_token |-> NoneId])
             \/ \E email \in Emails :
                   process_google_session_find_one(s,
                      [ok |-> TRUE, email |-> email, name |-> ProviderName(email),
                       session_token |-> Len(sessions) + Cardinality(AddingSession) + 1])

Logout ==
    \E s \in Slots, cookie \in cookies \cup {NoneId} : Accepting(s) /\ logout(s, cookie)

GetMe ==
    \E s \in Slots,
       req \in Credentials \cup {[cookie |-> NoneId, bearer |-> ForgedBearer]} :
       Accepting(s) /\ Arrive(s, "get_me", req, NoneId, <<>>)

UpdateUser ==
    \E s \in Slots, req \in BearerOnly, user_id \in (1..Len(users)) \cup {GhostId} :
       /\ Accepting(s)
       /\ \/ Arrive(s, "update_user", req, user_id, <<[is_active |-> TRUE]>>)
          \/ /\ user_id = GhostId
             /\ Arrive(s, "update_user", req, user_id, <<[password |-> 1]>>)

DeactivateUser ==
    \E s \in Slots, req \in BearerOnly, user_id \in (1..Len(users)) \cup {GhostId} :
       Accepting(s) /\ Arrive(s, "deactivate_user", req, user_id, <<>>)

TimePasses ==
    /\ now < MaxElapses * ACCESS_TOKEN_EXPIRE_MINUTES
    /\ Elapse(ACCESS_TOKEN_EXPIRE_MINUTES)

\* account requests: people register and log in, administrators patch and
\* deactivate users, callers with a bearer token ask who they are
Next ==
    \/ SignUp
    \/ RegisterInsertOne
    \/ Login
    \/ GetMe
    \/ \E s \in Slots : auth_bearer_user(s)
    \/ UpdateUser
    \/ \E s \in Slots : update_user_update_one(s)
    \/ DeactivateUser
    \/ \E s \in Slots : deactivate_user_update_one(s)
    \/ TimePasses

Spec == Init /\ [][Next]_vars

\* session requests: external-session exchanges set cookies, callers with a
\* cookie, a bearer token or both ask who they are, sessions are logged out
\* and expire, users are deactivated
NextSessions ==
    \/ SignUp
    \/ RegisterInsertOne
    \/ GoogleSession
    \/ \E s \in Slots : process_google_session_users_insert_one(s)
    \/ \E s \in Slots : process_google_session_sessions_insert_one(s)
    \/ \E s \in Slots : process_google_session_user_find_one(s)
    \/ Logout
    \/ GetMe
    \/ \E s \in Slots : auth_session_user(s)
    \/ \E s \in Slots : auth_bearer_user(s)
    \/ DeactivateUser
    \/ \E s \in Slots : deactivate_user_update_one(s)
    \/ TimePasses

SpecSessions == Init /\ [][NextSessions]_vars

\* ------------------------------------------------- work-order requests

MaxOrders == 1
MaxNotifications == 2

\* a request with the bearer token of a user, or without credentials
As(user_id) ==
    [cookie |-> NoneId,
     bearer |-> CHOOSE t \in issued \cup {NoBearer} :
                   t.user_id = user_id /\ (user_id = NoneId => t = NoBearer)]

OrderIds == (1..wo_seq) \cup {GhostId}

\* the creates in flight that have not taken their id yet
Creating ==
    {s \in Slots : /\ inflight[s].op = "create_work_order"
                   /\ inflight[s].pc \in {"auth_bearer_user", "count_documents",
                                          "client_find_one", "tech_find_one"}}

\* ---------------------------------------- the requests of a client

\* the client asks for every change of every order, while the administrator
\* creates orders for the client and deletes them
ClientCreate ==
    \E s \in Slots, wo_data \in [client_id : {SeedClient, GhostId},
                                 assigned_to_id : {NoneId}] :
       Accepting(s) /\ Arrive(s, "create_work_order", As(SeedClient), NoneId, <<wo_data>>)

ClientUpdate ==
    \E s \in Slots, id \in OrderIds,
       updates \in [status : {NoneStr, IN_PROGRESS}, assigned_to_id : {NoneId},
                    total_cost : {NoneId}] :
       Accepting(s) /\ Arrive(s, "update_work_order", As(SeedClient), id, <<updates>>)

ClientDelete ==
    \E s \in Slots, id \in OrderIds :
       Accepting(s) /\ Arrive(s, "delete_work_order", As(SeedClient), id, <<>>)

AdminCreate ==
    /\ wo_seq + Cardinality(Creating) < MaxOrders
    /\ \E s \in Slots :
          /\ Accepting(s)
          /\ Arrive(s, "create_work_order", As(SeedAdmin), NoneId,
                    <<[client_id |-> SeedClient, assigned_to_id |-> NoneId]>>)

AdminDelete ==
    \E s \in Slots, id \in 1..wo_seq :
       Accepting(s) /\ Arrive(s, "delete_work_order", As(SeedAdmin), id, <<>>)

NextClient ==
    \/ ClientCreate
    \/ ClientUpdate
    \/ ClientDelete
    \/ AdminCreate
    \/ AdminDelete
    \/ \E s \in Slots : create_work_order_count_documents(s)
    \/ \E s \in Slots : create_work_order_client_find_one(s)
    \/ \E s \in Slots : create_work_order_insert_one(s)
    \/ \E s \in Slots : create_work_order_notify_client(s)
    \/ \E s \in Slots : update_work_order_find_one(s)
    \/ \E s \in Slots : delete_work_order_delete_one(s)
    \/ \E s \in Slots : auth_bearer_user(s)

SpecClient == InitSeeded /\ [][NextClient]_vars

\* ------------------------------------------------------- creates

\* creates for a stored and for a missing client, with no assignee id, an
\* empty one, a technician's and one that no user has; one order more than
\* MaxOrders is created, so that two creates are in flight together
CreateInputs ==
    [client_id : {SeedClient, GhostId},
     assigned_to_id : {NoneId, EmptyId, SeedTechA, GhostId}]

CreateOrder ==
    /\ wo_seq + Cardinality(Creating) < MaxOrders + 1
    /\ \E s \in Slots, c \in {SeedAdmin, SeedTechA}, wo_data \in CreateInputs :
          Accepting(s) /\ Arrive(s, "create_work_order", As(c), NoneId, <<wo_data>>)

NextCreate ==
    \/ CreateOrder
    \/ \E s \in Slots : create_work_order_count_documents(s)
    \/ \E s \in Slots : create_work_order_client_find_one(s)
    \/ \E s \in Slots : create_work_order_tech_find_one(s)
    \/ \E s \in Slots : create_work_order_insert_one(s)
    \/ \E s \in Slots : create_work_order_notify_client(s)
    \/ \E s \in Slots : create_work_order_notify_assignee(s)
    \/ \E s \in Slots : auth_bearer_user(s)

SpecCreate == InitSeeded /\ [][NextCreate]_vars

\* ------------------------------------- the requests of a technician

\* the administrator creates orders for the client, for technician A or for
\* nobody, hands them to technician B and deletes them; technician A changes
\* the status of orders and hands them on, also to an id that no user has
TechCreate ==
    /\ wo_seq + Cardinality(Creating) < MaxOrders
    /\ Len(notifications) < MaxNotifications
    /\ \E s \in Slots, assigned_to_id \in {NoneId, SeedTechA} :
          /\ Accepting(s)
          /\ Arrive(s, "create_work_order", As(SeedAdmin), NoneId,
                    <<[client_id |-> SeedClient, assigned_to_id |-> assigned_to_id]>>)

TechUpdateInputs ==
    { [status |-> IN_PROGRESS, assigned_to_id |-> NoneId, total_cost |-> NoneId],
      [status |-> PENDING, assigned_to_id |-> NoneId, total_cost |-> NoneId],
      [status |-> NoneStr, assigned_to_id |-> SeedTechB, total_cost |-> NoneId],
      [status |-> NoneStr, assigned_to_id |-> GhostId, total_cost |-> NoneId] }

TechUpdate ==
    /\ Len(notifications) < MaxNotifications
    /\ \E s \in Slots, id \in OrderIds, updates \in TechUpdateInputs :
          Accepting(s) /\ Arrive(s, "update_work_order", As(SeedTechA), id, <<updates>>)

AdminReassign ==
    /\ Len(notifications) < MaxNotifications
    /\ \E s \in Slots, id \in 1..wo_seq :
          /\ Accepting(s)
          /\ Arrive(s, "update_work_order", As(SeedAdmin), id,
                    <<[status |-> NoneStr, assigned_to_id |-> SeedTechB,
                       total_cost |-> NoneId]>>)

NextTech ==
    \/ TechCreate
    \/ TechUpdate
    \/ AdminReassign
    \/ AdminDelete
    \/ \E s \in Slots : create_work_order_count_documents(s)
    \/ \E s \in Slots : create_work_order_client_find_one(s)
    \/ \E s \in Slots : create_work_order_tech_find_one(s)
    \/ \E s \in Slots : create_work_order_insert_one(s)
    \/ \E s \in Slots : create_work_order_notify_client(s)
    \/ \E s \in Slots : create_work_order_notify_assignee(s)
    \/ \E s \in Slots : update_work_order_find_one(s)
    \/ \E s \in Slots : update_work_order_tech_find_one(s)
    \/ \E s \in Slots : update_work_order_notify_assignee(s)
    \/ \E s \in Slots : update_work_order_update_one(s)
    \/ \E s \in Slots : update_work_order_notify_client(s)
    \/ \E s \in Slots : update_work_order_find_one_updated(s)
    \/ \E s \in Slots : delete_work_order_delete_one(s)
    \/ \E s \in Slots : auth_bearer_user(s)

SpecTech == InitSeeded /\ [][NextTech]_vars

\* ------------------------------------------------ notification requests

\* the requests in flight that will notify an assignee of maintenance
Maintaining == {s \in Slots : inflight[s].op = "create_preventive_maintenance"}

\* the supervisor plans maintenance for one technician or the other, so that
\* two users own notifications; both technicians mark theirs as read
NotifyMaintenance ==
    /\ Len(notifications) + Cardinality(Maintaining) < MaxNotifications
    /\ \E s \in Slots, assigned_to_id \in {SeedTechA, SeedTechB} :
          /\ Accepting(s)
          /\ Arrive(s, "create_preventive_maintenance", As(SeedSupervisor), NoneId,
                    <<[assigned_to_id |-> assigned_to_id]>>)

NotifyCallers == {SeedTechA, SeedTechB}

MarkAllRead ==
    \E s \in Slots, c \in NotifyCallers :
       Accepting(s) /\ Arrive(s, "mark_all_notifications_read", As(c), NoneId, <<>>)

\* technician B marks single notifications, own ones, those of technician A
\* and one that is not stored; a notification's id is drawn at its creation
\* (uuid4), so the id of a request already sent is never given to a
\* notification created later
MarkRead ==
    \E s \in Slots, id \in (1..Len(notifications)) \cup {GhostId} :
       Accepting(s) /\ Arrive(s, "mark_notification_read", As(SeedTechB), id, <<>>)

NextNotify ==
    \/ NotifyMaintenance
    \/ MarkAllRead
    \/ MarkRead
    \/ \E s \in Slots : create_preventive_maintenance_find_one(s)
    \/ \E s \in Slots : create_preventive_maintenance_insert_one(s)
    \/ \E s \in Slots : create_preventive_maintenance_notify_assignee(s)
    \/ \E s \in Slots : mark_all_notifications_read_update_many(s)
    \/ \E s \in Slots : mark_notification_read_update_one(s)
    \/ \E s \in Slots : auth_bearer_user(s)

SpecNotify == InitSeeded /\ [][NextNotify]_vars

\* --------------------------------------------------- cost requests

MaxCosts == 2

Amounts == {3, 4}

\* the cost requests in flight that have not inserted their entry yet
Costing ==
    {s \in Slots : /\ inflight[s].op = "create_cost_entry"
                   /\ inflight[s].pc \in {"auth_bearer_user", "find_one", "insert_one"}}

CostCreateOrder ==
    /\ wo_seq + Cardinality(Creating) < MaxOrders + 1
    /\ \E s \in Slots :
          /\ Accepting(s)
          /\ Arrive(s, "create_work_order", As(SeedAdmin), NoneId,
                    <<[client_id |-> SeedClient, assigned_to_id |-> NoneId]>>)

CostUpdateOrder ==
    \E s \in Slots, id \in 1..wo_seq :
       /\ Accepting(s)
       /\ Arrive(s, "update_work_order", As(SeedAdmin), id,
                 <<[status |-> NoneStr, assigned_to_id |-> NoneId, total_cost |-> 7]>>)

AddCostEntry ==
    /\ Len(cost_entries) + Cardinality(Costing) < MaxCosts
    /\ \E s \in Slots, c \in {SeedTechA, SeedClient}, id \in OrderIds, amount \in Amounts :
          Accepting(s) /\ Arrive(s, "create_cost_entry", As(c), id, <<amount>>)

NextCosts ==
    \/ CostCreateOrder
    \/ CostUpdateOrder
    \/ AdminDelete
    \/ AddCostEntry
    \/ \E s \in Slots : create_work_order_count_documents(s)
    \/ \E s \in Slots : create_work_order_client_find_one(s)
    \/ \E s \in Slots : create_work_order_insert_one(s)
    \/ \E s \in Slots : create_work_order_notify_client(s)
    \/ \E s \in Slots : update_work_order_find_one(s)
    \/ \E s \in Slots : update_work_order_update_one(s)
    \/ \E s \in Slots : update_work_order_find_one_updated(s)
    \/ \E s \in Slots : delete_work_order_delete_one(s)
    \/ \E s \in Slots : create_cost_entry_find_one(s)
    \/ \E s \in Slots : create_cost_entry_insert_one(s)
    \/ \E s \in Slots : create_cost_entry_find(s)
    \/ \E s \in Slots : create_cost_entry_update_one(s)
    \/ \E s \in Slots : auth_bearer_user(s)

SpecCosts == InitSeeded /\ [][NextCosts]_vars

\* ------------------------------------------- long runs of one request

\* how far a collection grows past the ListLimit documents a cursor hands over
MaxOverflow == 1

\* no request is in flight: the next one is served alone
Alone == \A s \in Slots : Free(s)

\* the orders of a long run: all for the client, every other one assigned
\* to technician A
BulkOrderInput ==
    [client_id |-> SeedClient,
     assigned_to_id |-> IF wo_seq % 2 = 0 THEN SeedTechA ELSE NoneId]

BulkListCallers == {SeedAdmin, SeedSupervisor, SeedTechA, SeedTechB, SeedClient}

BulkCreateOrder ==
    /\ Alone
    /\ wo_seq < ListLimit + MaxOverflow
    /\ \E s \in Slots :
          /\ Accepting(s)
          /\ Arrive(s, "create_work_order", As(SeedSupervisor), NoneId, <<BulkOrderInput>>)

\* the list is asked for once the store holds ListLimit - 1 orders or more
BulkListOrders ==
    /\ Alone
    /\ Len(work_orders) + 1 >= ListLimit
    /\ \E s \in Slots, c \in BulkListCallers :
          Accepting(s) /\ Arrive(s, "get_work_orders", As(c), NoneId, <<>>)

NextBulkList ==
    \/ BulkCreateOrder
    \/ BulkListOrders
    \/ \E s \in Slots : create_work_order_count_documents(s)
    \/ \E s \in Slots : create_work_order_client_find_one(s)
    \/ \E s \in Slots : create_work_order_tech_find_one(s)
    \/ \E s \in Slots : create_work_order_insert_one(s)
    \/ \E s \in Slots : create_work_order_notify_client(s)
    \/ \E s \in Slots : create_work_order_notify_assignee(s)
    \/ \E s \in Slots : get_work_orders_find(s)
    \/ \E s \in Slots : auth_bearer_user(s)

SpecBulkList == InitSeeded /\ [][NextBulkList]_vars

\* one order, and cost entries of amount 1 added to it one after the other
BulkCostOrder ==
    /\ Alone
    /\ wo_seq = 0
    /\ \E s \in Slots :
          /\ Accepting(s)
          /\ Arrive(s, "create_work_order", As(SeedAdmin), NoneId,
                    <<[client_id |-> SeedClient, assigned_to_id |-> NoneId]>>)

BulkAddCostEntry ==
    /\ Alone
    /\ Len(work_orders) = 1
    /\ Len(cost_entries) < ListLimit + MaxOverflow
    /\ \E s \in Slots :
          Accepting(s) /\ Arrive(s, "create_cost_entry", As(SeedAdmin), 1, <<1>>)

NextBulkCosts ==
    \/ BulkCostOrder
    \/ BulkAddCostEntry
    \/ \E s \in Slots : create_work_order_count_documents(s)
    \/ \E s \in Slots : create_work_order_client_find_one(s)
    \/ \E s \in Slots : create_work_order_insert_one(s)
    \/ \E s \in Slots : create_work_order_notify_client(s)
    \/ \E s \in Slots : create_cost_entry_find_one(s)
    \/ \E s \in Slots : create_cost_entry_insert_one(s)
    \/ \E s \in Slots : create_cost_entry_find(s)
    \/ \E s \in Slots : create_cost_entry_update_one(s)
    \/ \E s \in Slots : auth_bearer_user(s)

SpecBulkCosts == InitSeeded /\ [][NextBulkCosts]_vars

\* ------------------------------------------------- settings requests

SettingsCallers == {SeedAdmin, SeedClient, NoneId}

SettingsRead ==
    \E s \in Slots, c \in SettingsCallers :
       Accepting(s) /\ Arrive(s, "get_settings", As(c), NoneId, <<>>)

\* a write names the company, or nothing at all
SettingsWrite ==
    \E s \in Slots, c \in SettingsCallers, company_name \in {NoneStr, "Acme"} :
       /\ Accepting(s)
       /\ Arrive(s, "update_settings", As(c), NoneId,
                 <<[company_name |-> company_name, logo_url |-> NoneStr,
                    primary_color |-> NoneStr, secondary_color |-> NoneStr,
                    timezone |-> NoneStr]>>)

NextSettings ==
    \/ SettingsRead
    \/ SettingsWrite
    \/ \E s \in Slots : get_settings_find_one(s)
    \/ \E s \in Slots : get_settings_insert_one(s)
    \/ \E s \in Slots : update_settings_update_one(s)
    \/ \E s \in Slots : auth_bearer_user(s)

SpecSettings == InitSeeded /\ [][NextSettings]_vars

\* ---------------------------------------------------- email requests

\* an admin user-patch that sets the email of a user
PatchEmail ==
    \E s \in Slots, req \in BearerOnly, user_id \in (1..Len(users)) \cup {GhostId},
       email \in Emails :
       Accepting(s) /\ Arrive(s, "update_user", req, user_id, <<[email |-> email]>>)

NextEmails ==
    \/ Register
    \/ RegisterInsertOne
    \/ GoogleSession
    \/ \E s \in Slots : process_google_session_users_insert_one(s)
    \/ \E s \in Slots : process_google_session_sessions_insert_one(s)
    \/ \E s \in Slots : process_google_session_user_find_one(s)
    \/ PatchEmail
    \/ \E s \in Slots : update_user_update_one(s)
    \/ \E s \in Slots : auth_bearer_user(s)

SpecEmails == Init /\ [][NextEmails]_vars

\* ------------------------------------------------- register requests

\* people register, two of them with the same email, and log in
NextRegister ==
    \/ Register
    \/ RegisterInsertOne
    \/ Login

SpecRegister == Init /\ [][NextRegister]_vars

\* ------------------------------------------ deactivation requests

\* requests around a deactivation: the administrator deactivates technician
\* A; A logs in with the right and a wrong password, exchanges an external
\* session for a cookie, and asks who they are with the cookie, the bearer
\* token, both or neither, before, during and after the deactivation
NextInactive ==
    \/ \E s \in Slots :
          /\ Accepting(s)
          /\ Arrive(s, "deactivate_user", As(SeedAdmin), SeedTechA, <<>>)
    \/ \E s \in Slots : deactivate_user_update_one(s)
    \/ \E s \in Slots, password \in Passwords :
          /\ Accepting(s)
          /\ login(s, [email |-> "tom@x", password |-> password])
    \/ /\ Len(sessions) + Cardinality(AddingSession) < MaxSessions
       /\ \E s \in Slots :
             /\ Accepting(s)
             /\ process_google_session_find_one(s,
                   [ok |-> TRUE, email |-> "tom@x", name |-> "tom g",
                    session_token |-> Len(sessions) + Cardinality(AddingSession) + 1])
    \/ \E s \in Slots : process_google_session_sessions_insert_one(s)
    \/ \E s \in Slots : process_google_session_user_find_one(s)
    \/ \E s \in Slots, cookie \in cookies \cup {NoneId},
          bearer \in {As(SeedTechA).bearer, NoBearer} :
          /\ Accepting(s)
          /\ Arrive(s, "get_me", [cookie |-> cookie, bearer |-> bearer], NoneId, <<>>)
    \/ \E s \in Slots : auth_session_user(s)
    \/ \E s \in Slots : auth_bearer_user(s)

SpecInactive == InitSeeded /\ [][NextInactive]_vars

\* ------------------------------------------ properties of SpecRegister

\* a stored user has this email
EmailStored(email) == \E i \in 1..Len(users) : users[i].email = email

\* the slot whose coroutine a step has ended
Answered(s) == ~Free(s) /\ inflight'[s].op = "none"

\* the coroutine of slot s has run in this step
Resumed(s) == ~Free(s) /\ inflight'[s] # inflight[s]

\* C5: a register request whose email is, when the request looks it up, the
\* email of a stored user ends with the duplicate-email error (400 "Email
\* already registered", the Conflict of the specification) and goes no
\* further; the refusal leaves the user collection as it was: no user is
\* added and the stored account keeps its name, role, password hash and
\* active flag.  No token is issued either.
C5_DuplicateEmailRefused ==
    /\ [][ \A s \in Slots :
             (Free(s) /\ inflight'[s].op = "register")
                 => ~EmailStored(inflight'[s].args[1].email) ]_vars
    /\ [][ (resp'.op = "register" /\ \A s \in Slots : ~Answered(s))
           => /\ resp'.code = 400
              /\ EmailStored(resp'.body[1].email)
              /\ users' = users
              /\ issued' = issued
              /\ inflight' = inflight ]_vars
    /\ [][ (resp'.op = "register" /\ resp'.code = 400)
           => \A s \in Slots : ~Answered(s) ]_vars

\* a register with a stored email, but another name and password than the
\* stored account has, was refused
C5_Witness ==
    /\ resp.op = "register"
    /\ resp.code = 400
    /\ \E i \in 1..Len(users) :
          /\ users[i].email = resp.body[1].email
          /\ users[i].name # resp.body[1].name
          /\ users[i].password_hash # NoneId
          /\ ~verify_password(resp.body[1].password, users[i].password_hash)

\* --------------------------------------------- properties of SpecInactive

Inactive(user_id) ==
    \E i \in 1..Len(users) : users[i].id = user_id /\ ~users[i].is_active

\* C6: while a user's is_active flag is false no authentication path
\* resolves to that user.  A login with an email that only inactive users
\* have ends 401, also with the correct password.  A lookup of
\* get_current_user that runs while the flag of the user it looks up is
\* false does not resolve: on the bearer branch the request ends 401; on the
\* cookie branch it ends 401 (always when it carries no bearer token) or
\* falls back to the token, still without a user.  No login and no step of
\* get_current_user gives a request a user whose flag is false when the step
\* reads it.  User records are never removed.  (The external-session
\* exchange is not one of the claim's paths: it stores a session and answers
\* with the user's data without reading the flag; the cookie it sets is
\* refused by get_current_user as long as the flag is false.)
C6_InactiveUserCannotAuthenticate ==
    /\ [][ (/\ resp'.op = "login"
            /\ \A i \in 1..Len(users) :
                  users[i].email = resp'.body[1].email => ~users[i].is_active)
           => resp'.code = 401 ]_vars
    /\ [][ \A s \in Slots :
             (/\ Resumed(s)
              /\ inflight[s].pc = "auth_bearer_user"
              /\ Inactive(inflight[s].local[1]))
             => /\ Answered(s)
                /\ resp'.code = 401
                /\ resp'.user = NoneId ]_vars
    /\ [][ \A s \in Slots :
             (/\ Resumed(s)
              /\ inflight[s].pc = "auth_session_user"
              /\ Inactive(inflight[s].local[1]))
             => /\ inflight'[s].user = NoUser
                /\ resp'.user = NoneId
                /\ IF Answered(s) THEN resp'.code = 401
                   ELSE inflight'[s].pc = "auth_bearer_user"
                /\ inflight[s].req.bearer = NoBearer => Answered(s) ]_vars
    /\ [][ /\ \A s \in Slots :
                (inflight[s].user = NoUser /\ inflight'[s].user # NoUser)
                    => ~Inactive(inflight'[s].user.id)
           /\ (/\ resp'.op \in {"login", "get_me", "deactivate_user"}
               /\ resp'.user # NoneId
               /\ \A s \in Slots : inflight[s].user.id # resp'.user)
                    => ~Inactive(resp'.user) ]_vars
    /\ [][ /\ Len(users') >= Len(users)
           /\ \A i \in 1..Len(users) : users'[i].id = users[i].id ]_vars

\* a request carrying the session cookie and the bearer token of technician A
\* has been refused while A's flag is false and A's session is stored and
\* unexpired
C6_Witness ==
    /\ resp.op = "get_me"
    /\ resp.code = 401
    /\ resp.body[1].bearer.sig = "signed"
    /\ resp.body[1].bearer.user_id = SeedTechA
    /\ resp.body[1].bearer.exp > now
    /\ SessionByToken(resp.body[1].cookie).user_id = SeedTechA
    /\ SessionByToken(resp.body[1].cookie).expires_at > now
    /\ Inactive(SeedTechA)

\* ------------------------------------------- properties of SpecSessions

\* the cookie token matches a persisted, unexpired session of an active user
CookieResolves(req) ==
    \E i \in 1..Len(sessions) :
        /\ req.cookie # NoneId
        /\ sessions[i].session_token = req.cookie
        /\ \A j \in 1..(i - 1) : sessions[j].session_token # req.cookie
        /\ sessions[i].expires_at > now
        /\ \E k \in 1..Len(users) :
              users[k].id = sessions[i].user_id /\ users[k].is_active

\* the bearer token is signed, unexpired and names an active user
BearerResolves(req) ==
    /\ req.bearer.sig = "signed"
    /\ req.bearer.exp > now
    /\ \E k \in 1..Len(users) :
          users[k].id = req.bearer.user_id /\ users[k].is_active

\* C12: a request is resolved by its cookie's session when that session is
\* persisted, unexpired and of an active user, whatever bearer token it also
\* carries; otherwise by its bearer token; and when neither resolves to an
\* active user the request ends Unauthenticated (401).
C12_FallbackOrder ==
    resp.op = "get_me" =>
        LET req == resp.body[1]
        IN  IF CookieResolves(req)
            THEN /\ resp.code = 200
                 /\ resp.user = SessionByToken(req.cookie).user_id
            ELSE IF BearerResolves(req)
            THEN /\ resp.code = 200
                 /\ resp.user = req.bearer.user_id
            ELSE resp.code = 401

\* a request whose cookie resolves to one user and whose valid bearer token
\* names another has been answered
C12_CookieBeforeBearer ==
    /\ resp.op = "get_me"
    /\ CookieResolves(resp.body[1])
    /\ BearerResolves(resp.body[1])
    /\ SessionByToken(resp.body[1].cookie).user_id # resp.body[1].bearer.user_id

\* a request with a token that is not signed with SECRET_KEY has been answered
C12_ForgedToken ==
    /\ resp.op = "get_me"
    /\ resp.body[1].bearer.sig = "forged"
    /\ resp.code = 500

\* ------------------------------------------- properties of SpecClient

StoredOrder(id) == WorkOrderById(id) # NoWorkOrder

OrderRequests == {"create_work_order", "update_work_order", "delete_work_order"}

\* the notifications a step has appended
Added == SubSeq(notifications', Len(notifications) + 1, Len(notifications'))

\* C3, as claimed: every create, update or delete request of a client ends
\* 403 Forbidden, whatever the body and whether or not the work order id
\* exists, and leaves the work orders and the notifications as they were.
C3_ClientAlwaysForbidden ==
    [][ (resp'.role = CLIENT /\ resp'.op \in OrderRequests)
        => /\ resp'.code = 403
           /\ work_orders' = work_orders
           /\ notifications' = notifications ]_vars

\* C3, amended: a client's create or delete request, and a client's update
\* request on a stored work order, end 403 Forbidden; a client's update
\* request on an id that is not stored when the handler looks it up ends
\* 404 NotFound (the lookup comes before the permission test); no step of a
\* client's request changes the work orders or the notifications; a create
\* or delete is answered as soon as get_current_user has found the caller,
\* an update by the first step the handler takes.
C3_ClientNeverChangesOrders ==
    /\ [][ (resp'.role = CLIENT /\ resp'.op \in OrderRequests)
           => /\ resp'.code = IF resp'.op = "update_work_order"
                                    /\ ~StoredOrder(resp'.target)
                              THEN 404 ELSE 403
              /\ work_orders' = work_orders
              /\ notifications' = notifications ]_vars
    /\ [][ \A s \in Slots :
             (/\ Resumed(s)
              /\ inflight[s].user.role = CLIENT
              /\ inflight[s].op \in OrderRequests)
             => /\ Answered(s)
                /\ resp'.op = inflight[s].op
                /\ resp'.role = CLIENT
                /\ work_orders' = work_orders
                /\ notifications' = notifications ]_vars
    /\ [][ \A s \in Slots :
             (/\ Resumed(s)
              /\ inflight[s].pc = "auth_bearer_user"
              /\ inflight[s].op \in OrderRequests
              /\ UserById(inflight[s].local[1]).role = CLIENT)
             => /\ work_orders' = work_orders
                /\ notifications' = notifications
                /\ IF inflight[s].op = "update_work_order"
                   THEN inflight'[s].pc = "find_one"
                   ELSE Answered(s) /\ resp'.code = 403 ]_vars

\* a client has been refused the update of a stored work order
C3_Witness ==
    /\ resp.role = CLIENT
    /\ resp.op = "update_work_order"
    /\ resp.code = 403
    /\ StoredOrder(resp.target)

\* ------------------------------------------- properties of SpecCreate

\* C8: a create request appends its work order once, then one notification
\* to the order's client, and then, exactly when the request carries an
\* assignee id (not None, not the empty string), one notification to that
\* assignee, and is answered 200 after the last of them; no other step of
\* the request adds a notification or a work order; a create that fails
\* (the client is not stored) is answered 404 before it has added any, and
\* one that get_current_user or require_role refuses has added none either.
C8_CreateNotifies ==
    [][ \A s \in Slots :
          (Resumed(s) /\ inflight[s].op = "create_work_order") =>
            LET r == inflight[s]
                wo_data == r.args[1]
            IN  CASE r.pc = "auth_bearer_user" ->
                       /\ work_orders' = work_orders
                       /\ notifications' = notifications
                       /\ Answered(s) => resp'.code \in {401, 403}
                       /\ ~Answered(s) => inflight'[s].pc = "count_documents"
                  [] r.pc = "insert_one" ->
                       /\ work_orders' = Append(work_orders, r.local[1])
                       /\ notifications' = notifications
                       /\ inflight'[s].pc = "notify_client"
                  [] r.pc = "notify_client" ->
                       /\ work_orders' = work_orders
                       /\ Len(Added) = 1
                       /\ Added[1].user_id = wo_data.client_id
                       /\ Added[1].link = r.local[1].id
                       /\ ~Added[1].is_read
                       /\ IF Truthy(wo_data.assigned_to_id)
                          THEN inflight'[s].pc = "notify_assignee"
                          ELSE Answered(s) /\ resp'.code = 200
                  [] r.pc = "notify_assignee" ->
                       /\ Truthy(wo_data.assigned_to_id)
                       /\ work_orders' = work_orders
                       /\ Len(Added) = 1
                       /\ Added[1].user_id = wo_data.assigned_to_id
                       /\ Added[1].link = r.local[1].id
                       /\ ~Added[1].is_read
                       /\ Answered(s) /\ resp'.code = 200
                  [] OTHER ->
                       /\ work_orders' = work_orders
                       /\ notifications' = notifications
                       /\ Answered(s) =>
                             /\ resp'.code = 404
                             /\ UserById(wo_data.client_id) = NoUser
                       /\ ~Answered(s) =>
                             inflight'[s].pc \in {"client_find_one", "tech_find_one",
                                                  "insert_one"} ]_vars

\* an order has been created with an assignee and both notifications exist
C8_Witness ==
    /\ resp.op = "create_work_order"
    /\ resp.code = 200
    /\ resp.body[1].assigned_to_id = SeedTechA
    /\ \E i \in 1..Len(notifications) :
          /\ notifications[i].user_id = SeedTechA
          /\ notifications[i].title = "New Assignment"
          /\ notifications[i].link = resp.body[1].id
    /\ \E i \in 1..Len(notifications) :
          /\ notifications[i].user_id = SeedClient
          /\ notifications[i].title = "New Work Order"
          /\ notifications[i].link = resp.body[1].id
    /\ Cardinality({i \in 1..Len(notifications) :
                       notifications[i].link = resp.body[1].id}) = 2

\* --------------------------------------------- properties of SpecTech

\* C4: an update request of a technician on a work order that is stored
\* when the handler loads it succeeds (200) exactly when the loaded order's
\* assigned_to_id is the technician's id; otherwise it ends 403 Forbidden
\* and changes nothing, also after the technician has handed the order on.
C4_TechnicianUpdatesOwnOrders ==
    [][ \A s \in Slots :
          (/\ Answered(s)
           /\ inflight[s].op = "update_work_order"
           /\ inflight[s].user.role = TECHNICIAN) =>
            LET r == inflight[s]
                work_order == IF r.pc = "find_one" THEN WorkOrderById(r.target)
                              ELSE r.local[1]
            IN  work_order # NoWorkOrder =>
                  IF work_order.assigned_to_id = r.user.id
                  THEN resp'.code = 200
                  ELSE /\ resp'.code = 403
                       /\ UNCHANGED <<work_orders, cost_entries, notifications, users>>
      ]_vars

\* technician A's update of an order assigned to A has ended 500, the order
\* having been deleted while the update was under way
C4_PermittedUpdateFails ==
    /\ resp.op = "update_work_order"
    /\ resp.user = SeedTechA
    /\ resp.code = 500
    /\ ~StoredOrder(resp.target)

\* the name assignment resolves for an assignee id: the stored user's name,
\* or none when the id is empty or matches no stored user
ResolvedName(assigned_to_id) ==
    IF \E k \in 1..Len(users) : users[k].id = assigned_to_id
    THEN UserById(assigned_to_id).name
    ELSE NoneStr

\* C13: every stored work order carries the name resolved for its current
\* assigned_to_id; no order keeps the name of a previously assigned user
\* next to a different assignee id, also when the new id matches no user.
C13_AssigneeNameFollowsId ==
    \A i \in 1..Len(work_orders) :
        work_orders[i].assigned_to_name = ResolvedName(work_orders[i].assigned_to_id)

\* an order carries the id that no user has and still the name of technician A
C13_StaleName ==
    \E i \in 1..Len(work_orders) :
        /\ work_orders[i].assigned_to_id = GhostId
        /\ work_orders[i].assigned_to_name = "tom"

\* C14: an update request emits its status-change notification only when it
\* changes the stored status to a different value: a request that reaches
\* the notification carries a status other than the one the order had when
\* the request loaded it.
C14_StatusNoticeIffChanged ==
    /\ [][ \A s \in Slots :
          (/\ Resumed(s)
           /\ inflight[s].op = "update_work_order"
           /\ inflight[s].pc = "notify_client")
          => /\ Len(Added) = 1
             /\ Added[1].title = "Work Order Updated"
             /\ Added[1].user_id = inflight[s].local[1].client_id
             /\ inflight[s].args[1].status # inflight[s].local[1].status ]_vars
    /\ [][ \A s \in Slots :
             (/\ Resumed(s)
              /\ inflight[s].op = "update_work_order"
              /\ inflight[s].pc = "update_one"
              /\ inflight[s].args[1].status \in
                     WorkOrderStatus \ {inflight[s].local[1].status})
             => inflight'[s].pc = "notify_client" ]_vars

\* an update that carried the status the order already had has told the client
C14_NoticeWithoutChange ==
    /\ resp.op = "update_work_order" /\ resp.code = 200
    /\ resp.body[1].status = PENDING
    /\ \E i \in 1..Len(notifications) :
          /\ notifications[i].title = "Work Order Updated"
          /\ notifications[i].link = resp.target

\* ------------------------------------------- properties of SpecNotify

\* C10: markAllNotificationsRead by user U sets is_read on every
\* notification whose user_id is U and leaves every notification of any
\* other user as it was; it creates and deletes no notification; and a
\* second call changes nothing the first has not changed.
C10_MarkAllReadScoped ==
    /\ [][ (resp'.op = "mark_all_notifications_read" /\ resp'.code = 200)
           => /\ Len(notifications') = Len(notifications)
              /\ \A i \in 1..Len(notifications) :
                    notifications'[i] =
                        IF notifications[i].user_id = resp'.user
                        THEN [notifications[i] EXCEPT !.is_read = TRUE]
                        ELSE notifications[i]
              /\ UNCHANGED <<work_orders, cost_entries, users>> ]_vars
    /\ [][ \A s \in Slots :
             (Resumed(s) /\ inflight[s].op = "mark_all_notifications_read")
                 => IF inflight[s].pc = "update_many"
                    THEN Answered(s) /\ resp'.code = 200
                    ELSE notifications' = notifications ]_vars
    /\ [](\A i \in 1..Len(users) :
             MarkAllApplied(MarkAllApplied(notifications, users[i]), users[i])
                 = MarkAllApplied(notifications, users[i]))
    /\ [][ (/\ resp.op = "mark_all_notifications_read" /\ resp.code = 200
            /\ resp'.op = "mark_all_notifications_read" /\ resp'.code = 200
            /\ resp'.user = resp.user)
           => notifications' = notifications ]_vars

\* mark-all by technician A has just run: A's notifications are read, and
\* the unread notification of technician B is still unread
C10_Witness ==
    /\ resp.op = "mark_all_notifications_read"
    /\ resp.code = 200
    /\ resp.user = SeedTechA
    /\ \E i \in 1..Len(notifications) :
          notifications[i].user_id = SeedTechA /\ notifications[i].is_read
    /\ \E i \in 1..Len(notifications) :
          notifications[i].user_id = SeedTechB /\ ~notifications[i].is_read

\* -------------------------------------------- properties of SpecCosts

\* every cost entry of a work order, however many there are
EntriesOf(work_order_id) ==
    LET Q(c) == c.work_order_id = work_order_id IN SelectSeq(cost_entries, Q)

\* C1: in every reachable state in which no request is under way, each
\* stored work order's total_cost is the sum of the amounts of the cost
\* entries whose work_order_id is its id (0 when it has none).
C1_TotalCostIsSumOfEntries ==
    Alone =>
        \A i \in 1..Len(work_orders) :
            work_orders[i].total_cost = SumAmounts(EntriesOf(work_orders[i].id))

\* an update has stored the total_cost its body carried on an order that has
\* no cost entry
C1_PatchedTotal ==
    /\ Alone
    /\ resp.op = "update_work_order" /\ resp.code = 200
    /\ resp.body[1].total_cost = 7
    /\ EntriesOf(resp.target) = <<>>

\* C7: a newly created work order gets a request number greater than that
\* of every work order created before it, so the numbers of the stored
\* orders strictly increase in creation order and no two are equal.
C7_RequestNumbersIncrease ==
    \A i, j \in 1..Len(work_orders) :
        work_orders[i].created_at < work_orders[j].created_at
            => DigitsValue(work_orders[i].request_id)
                   < DigitsValue(work_orders[j].request_id)

\* two stored orders carry the same request id
C7_SharedRequestId ==
    \E i, j \in 1..Len(work_orders) :
        i # j /\ work_orders[i].request_id = work_orders[j].request_id

\* ------------------------------ properties of SpecBulkList, SpecBulkCosts

\* the ownership predicate of a role: a client owns the orders with its
\* client_id, a technician those assigned to it, admin and supervisor all
OwnedBy(w, user_id, role) ==
    IF role = CLIENT THEN w.client_id = user_id
    ELSE IF role = TECHNICIAN THEN w.assigned_to_id = user_id
    ELSE TRUE

\* C2: for every authenticated user and every store state, listWorkOrders
\* returns exactly the stored work orders that satisfy the ownership
\* predicate of the user's role: none outside that set, none of it omitted.
C2_ListIsExactlyOwned ==
    (resp.op = "get_work_orders" /\ resp.code = 200)
        => Range(resp.body) = {w \in Range(work_orders) : OwnedBy(w, resp.user, resp.role)}

\* a list has been answered that leaves out an order the caller owns
C2_OrderOmitted ==
    /\ resp.op = "get_work_orders" /\ resp.code = 200
    /\ \E w \in Range(work_orders) :
          OwnedBy(w, resp.user, resp.role) /\ w \notin Range(resp.body)

\* C9: when an addCostEntry request on a stored work order has run to its
\* end with no other request under way, the order's total_cost is the sum
\* of the amounts of all cost entries of that order, the new one included.
C9_AddCostRecomputesTotal ==
    (resp.op = "create_cost_entry" /\ resp.code = 200)
        => WorkOrderById(resp.target).total_cost = SumAmounts(EntriesOf(resp.target))

\* an addCostEntry request served alone has left a total below the sum
C9_TotalBelowSum ==
    /\ resp.op = "create_cost_entry" /\ resp.code = 200
    /\ WorkOrderById(resp.target).total_cost < SumAmounts(EntriesOf(resp.target))

\* C15, second half: addCostEntry requests served one after the other, with
\* no other request, reach no state in which an order's stored total_cost
\* differs from the sum of its cost entries.  (First half: C15_StaleTotal is
\* reachable in SpecCosts, where two requests interleave.)
C15_NoStaleTotalWithoutInterleaving ==
    Alone =>
        \A i \in 1..Len(work_orders) :
            LET Q(c) == c.work_order_id = work_orders[i].id
            IN  work_orders[i].total_cost = SumAmounts(SelectSeq(cost_entries, Q))

\* both interleaved requests have completed and the stored total is stale
C15_StaleTotal ==
    /\ Alone
    /\ Len(cost_entries) = 2
    /\ resp.op = "create_cost_entry" /\ resp.code = 200
    /\ WorkOrderById(1).total_cost # SumAmounts(EntriesOf(1))
    /\ WorkOrderById(1).total_cost # 7

\* ----------------------------------------- properties of SpecSettings

\* the stored document is what CompanySettings() builds
IsDefault(d) ==
    /\ DOMAIN d = DOMAIN CompanySettings
    /\ \A k \in DOMAIN d \ {"updated_at"} : d[k] = CompanySettings[k]

\* C11: as long as no settings write has left its mark on the store, every
\* settings read that has answered returned the default values and left
\* exactly one settings record, the fixed-id singleton holding the
\* defaults, also when the steps of first reads interleave.
C11_SettingsReadsLeaveOneDefault ==
    (/\ resp.op = "get_settings" /\ resp.code = 200
     /\ \A i \in 1..Len(company_settings) : IsDefault(company_settings[i]))
    => /\ Len(resp.body) = 1
       /\ IsDefault(resp.body[1])
       /\ Len(company_settings) = 1

\* two first reads have both answered and two default records are stored
C11_TwoSingletons ==
    /\ Alone
    /\ Len(company_settings) = 2
    /\ \A i \in 1..Len(company_settings) : IsDefault(company_settings[i])

\* ------------------------------------------- properties of SpecEmails

\* C16: in every reachable state no two stored users have the same email,
\* after any sequence or interleaving of register requests,
\* external-session exchanges and admin user-patch requests.
C16_EmailsUnique ==
    \A i, j \in 1..Len(users) :
        i # j => users[i].email # users[j].email

\* two register requests for one email have both been answered 200
C16_RegisteredTwice ==
    /\ resp.op = "register" /\ resp.code = 200
    /\ Len(users) = 2
    /\ users[1].email = users[2].email
    /\ users[1].name # users[2].name
    /\ users[2].password_hash # NoneId

====
